---- MODULE Spec2Model ----
(***************************************************************************)
(* Capture coordination of server.py: the registry of connected Socket.IO  *)
(* sessions (connected_clients, client_ip_to_session_id), the capture      *)
(* ledger (pending_captures, capture_responses, capture_image_paths) and   *)
(* the handlers that change them, run as threads (async_mode='threading'). *)
(* A handler is cut into steps where the code lets other threads in: the   *)
(* sections under capture_lock are single steps, the code around them is   *)
(* not.                                                                    *)
(***************************************************************************)
EXTENDS Integers, Sequences, FiniteSets, TLC

\* ------------------------------------------------------------------ bounds
MaxClock == 2       \* datetime.now() takes the values 1..MaxClock
MaxTriggers == 2    \* captures opened by trigger_capture
MaxFrames == 2      \* frames received in all
MaxInFlight == 2    \* frame handlers running at once
MaxSavers == 2      \* save_frame_files calls followed statement by statement

\* ------------------------------------------------------------- the clients
Sid == {"A", "B", "C"}                \* Socket.IO session ids (request.sid)
Ip == {"ip1", "ip2"}                  \* remote addresses (request.remote_addr)
AddrOf == [s \in Sid |-> IF s = "C" THEN "ip2" ELSE "ip1"]   \* A and B share an address
\* upload_frame's client_id, f"{client_addr}:{REMOTE_PORT}"
HttpClientId == [ip \in Ip |-> IF ip = "ip1" THEN "ip1:port" ELSE "ip2:port"]
Tid == Sid \cup {HttpClientId[ip] : ip \in Ip}
CaptureId == 1..MaxClock              \* strftime of a clock value
NoCapture == 0                        \* metadata without 'capture_id'
Saver == 1..MaxSavers                 \* handler threads inside save_frame_files
Trig == {"http", "bg"}                \* /trigger_capture, keyboard or interval thread

VARIABLES
    connected_clients,        \* set of session ids
    client_ip_to_session_id,  \* dict: ip -> session id
    pending_captures,         \* dict: capture id -> set of expected session ids
    capture_responses,        \* dict: capture id -> set of tracking ids
    capture_image_paths,      \* dict: capture id -> list of saved frames
    frame_counters,           \* dict: tracking id -> frames saved
    received,                 \* the files in RECEIVED_DIR: one record per saved frame
    last_trigger_time,        \* the global; 0 is None
    clock,                    \* what datetime.now() returns
    rooms,                    \* socketio.server.manager.rooms['/']: the transport's sessions
    conn,                     \* each session's place in its life
    trig,                     \* each trigger thread: its position and locals
    saving,                   \* save_frame_files calls in progress: position and locals
    resp,                     \* frame handlers in flight: position and locals
    process_calls,            \* requests.post(PROCESS_ENDPOINT, ...) calls made
    captures,                 \* history: every capture opened by trigger_capture
    live                      \* history: capture id -> index in captures of the entry now in the ledger

registry == <<connected_clients, client_ip_to_session_id>>
ledger == <<pending_captures, capture_responses, capture_image_paths>>
vars == <<connected_clients, client_ip_to_session_id, pending_captures,
          capture_responses, capture_image_paths, frame_counters,
          received, last_trigger_time, clock, rooms, conn, trig, saving, resp,
          process_calls, captures, live>>

\* ------------------------------------------------------------ dict helpers
Put(d, k, v) == [x \in DOMAIN d \cup {k} |-> IF x = k THEN v ELSE d[x]]
Del(d, k) == [x \in DOMAIN d \ {k} |-> d[x]]
DelAll(d, ks) == [x \in DOMAIN d \ ks |-> d[x]]
Get(d, k, default) == IF k \in DOMAIN d THEN d[k] ELSE default
Empty == [x \in {} |-> 0]

\* A trigger thread before its call: capture_id is the local of trigger_capture,
\* capture the index in captures of what it opened, replied the id in the HTTP reply.
IdleTrig == [pc |-> "idle", capture_id |-> NoCapture, capture |-> 0,
             replied |-> NoCapture, result |-> "none"]

\* A handler thread that has not entered save_frame_files
IdleSave == [pc |-> "idle", tracking_id |-> "", count |-> 0, frame_number |-> 0]

Init ==
    /\ connected_clients = {}
    /\ client_ip_to_session_id = Empty
    /\ pending_captures = Empty
    /\ capture_responses = Empty
    /\ capture_image_paths = Empty
    /\ frame_counters = Empty
    /\ received = {}
    /\ last_trigger_time = 0
    /\ clock = 1
    /\ rooms = {}
    /\ conn = [s \in Sid |-> "new"]
    /\ trig = [t \in Trig |-> IdleTrig]
    /\ saving = [h \in Saver |-> IdleSave]
    /\ resp = {}
    /\ process_calls = <<>>
    /\ captures = <<>>
    /\ live = Empty

\* ------------------------------------------------------------ the registry

\* handle_connect, lines 442-453
ConnectRegistry(cc, m, sid, ip) ==
    <<cc \cup {sid}, Put(m, ip, sid)>>

\* The mapping of the address is deleted whoever it names.
DisconnectRegistry_ByAddress(cc, m, sid, ip) ==
    <<cc \ {sid}, IF ip \in DOMAIN m THEN Del(m, ip) ELSE m>>

\* handle_disconnect, lines 519-530; ip is "" where request.remote_addr is unavailable
DisconnectRegistry(cc, m, sid, ip) ==
    <<cc \ {sid},
      IF ip # "" /\ ip \in DOMAIN m /\ m[ip] = sid THEN Del(m, ip) ELSE m>>

\* Nothing is ever found stale.
StaleClients_None(cc, actual_sessions) == {}

\* cleanup_stale_connections, lines 488-496
StaleClients(cc, actual_sessions) == cc \ actual_sessions

\* The stale sessions leave the set and their address mappings stay.
CleanupStale_KeepMappings(cc, m, actual_sessions) ==
    <<cc \ StaleClients(cc, actual_sessions), m>>

\* cleanup_stale_connections, lines 487-496
CleanupStale(cc, m, actual_sessions) ==
    LET stale_clients == StaleClients(cc, actual_sessions)
        stale_ips == {ip \in DOMAIN m : m[ip] \in stale_clients}
    IN  IF stale_clients # {}
        THEN <<cc \ stale_clients, DelAll(m, stale_ips)>>
        ELSE <<cc, m>>

\* ------------------------------------------------------------- the ledger

\* The test without its second half: any capture id passes.
IsPendingCapture_AnyId(capture_id, pc) == capture_id # NoCapture

\* handle_capture_response, line 267
IsPendingCapture(capture_id, pc) ==
    capture_id # NoCapture /\ capture_id \in DOMAIN pc

\* The test written as an equality of the two sets.
AllResponded_Equal(responded_clients, expected_clients) ==
    expected_clients = responded_clients

\* The test passes as soon as anyone has responded.
AllResponded_Any(responded_clients, expected_clients) ==
    responded_clients # {}

\* handle_capture_response, line 290
AllResponded(responded_clients, expected_clients) ==
    expected_clients \subseteq responded_clients

\* handle_disconnect, line 537: this capture waits for the session
ExpectsClient(expected_clients, client_id) == client_id \in expected_clients

\* The test always passes: any disconnect of an expected session ends the capture.
NoneLeft_Always(expected_clients) == TRUE

\* The test never passes: a capture nobody is left to answer stays.
NoneLeft_Never(expected_clients) == FALSE

\* handle_disconnect, line 540
NoneLeft(expected_clients) == Cardinality(expected_clients) = 0

\* The discard takes every session out of the sets that held the client.
DiscardClient_Everyone(pc, client_id) ==
    [k \in DOMAIN pc |-> IF ExpectsClient(pc[k], client_id) THEN {} ELSE pc[k]]

\* handle_disconnect, lines 536-541: the expected sets after the discard
DiscardClient(pc, client_id) ==
    [k \in DOMAIN pc |-> IF ExpectsClient(pc[k], client_id)
                         THEN pc[k] \ {client_id} ELSE pc[k]]

\* handle_disconnect, lines 535-541
CapturesToRemove(pc, client_id) ==
    {k \in DOMAIN pc : ExpectsClient(pc[k], client_id)
                       /\ NoneLeft(pc[k] \ {client_id})}

\* The three del statements left out: the entries stay.
CleanUp_Forgotten(d, capture_ids) == d

\* handle_capture_response, lines 311-313; handle_disconnect, lines 544-549
CleanUp(d, capture_ids) == DelAll(d, capture_ids)

\* The history follows the ledger: the captures still in pending_captures.
StillLive(pc) == [k \in DOMAIN live \cap DOMAIN pc |-> live[k]]

\* The test left out: a trigger goes on whoever is connected.
HasClients_Always(cc) == TRUE

\* handle_capture_response, lines 300-308: what requests.post comes to, a 200
\* reply, another status, or a RequestException (a timeout is one)
ProcessOutcome == {"200", "non200", "RequestException"}

\* The capture is cleaned up only when /process answered 200.
TerminalAfter_Only200(outcome) == outcome = "200"

\* handle_capture_response, lines 300-313: the three del statements follow the
\* try block whatever its outcome
TerminalAfter(outcome) == outcome \in ProcessOutcome

\* trigger_capture, line 658
HasClients(cc) == Cardinality(cc) > 0

\* trigger_capture, line 673
ExpectedSnapshot(cc) == cc

\* ------------------------------------------------------------ the transport

\* handle_connect that also enters the session in every open capture.
HandleConnect_Joining(s) ==
    /\ conn[s] = "new"
    /\ LET r == ConnectRegistry(connected_clients, client_ip_to_session_id, s, AddrOf[s])
       IN  /\ connected_clients' = r[1]
           /\ client_ip_to_session_id' = r[2]
    /\ pending_captures' = [k \in DOMAIN pending_captures |-> pending_captures[k] \cup {s}]
    /\ conn' = [conn EXCEPT ![s] = "up"]
    /\ rooms' = rooms \cup {s}
    /\ UNCHANGED <<capture_responses, capture_image_paths, frame_counters, received,
                   last_trigger_time, clock, trig, resp, process_calls, captures, live, saving>>

\* A client opens a Socket.IO connection and handle_connect runs, lines 438-453.
HandleConnect(s) ==
    /\ conn[s] = "new"
    /\ LET r == ConnectRegistry(connected_clients, client_ip_to_session_id, s, AddrOf[s])
       IN  /\ connected_clients' = r[1]
           /\ client_ip_to_session_id' = r[2]
    /\ conn' = [conn EXCEPT ![s] = "up"]
    /\ rooms' = rooms \cup {s}
    /\ UNCHANGED <<ledger, frame_counters, received, last_trigger_time, clock,
                   trig, resp, process_calls, captures, live, saving>>

\* The connection is gone and no disconnect event reaches the handlers.
TransportDrop(s) ==
    /\ conn[s] = "up"
    /\ conn' = [conn EXCEPT ![s] = "lost"]
    /\ rooms' = rooms \ {s}
    /\ UNCHANGED <<registry, ledger, frame_counters, received, last_trigger_time, clock,
                   trig, resp, process_calls, captures, live, saving>>

\* The connection ends and handle_disconnect starts, lines 507-531: the part
\* outside capture_lock; the manager forgets the session when the handler has run.
HandleDisconnectRegistry(s, ip) ==
    /\ conn[s] = "up"
    /\ LET r == DisconnectRegistry(connected_clients, client_ip_to_session_id, s, ip)
       IN  /\ connected_clients' = r[1]
           /\ client_ip_to_session_id' = r[2]
    /\ conn' = [conn EXCEPT ![s] = "closing_ledger"]
    /\ UNCHANGED <<ledger, frame_counters, received, last_trigger_time, clock, rooms,
                   trig, resp, process_calls, captures, live, saving>>

\* handle_disconnect, lines 534-549: what the section under capture_lock does
\* to the ledger for client_id s
DisconnectLedger(s) ==
    LET hit == {k \in DOMAIN pending_captures : ExpectsClient(pending_captures[k], s)}
        captures_to_remove == CapturesToRemove(pending_captures, s)
    IN  /\ pending_captures' = CleanUp(DiscardClient(pending_captures, s), captures_to_remove)
        /\ capture_responses' = CleanUp(capture_responses, captures_to_remove)
        /\ capture_image_paths' = CleanUp(capture_image_paths, captures_to_remove)
        /\ captures' = [n \in DOMAIN captures |->
              IF \E k \in hit : live[k] = n
              THEN IF captures[n].capture_id \in captures_to_remove
                   THEN [captures[n] EXCEPT
                           !.closed = Append(@, "aborted"),
                           !.recorded = Get(capture_responses, captures[n].capture_id, {})]
                   ELSE captures[n]
              ELSE captures[n]]
        /\ live' = StillLive(pending_captures')

\* handle_disconnect, lines 534-549: the part under capture_lock
HandleDisconnectLedger(s) ==
    /\ conn[s] = "closing_ledger"
    /\ DisconnectLedger(s)
    /\ conn' = [conn EXCEPT ![s] = "closed"]
    /\ rooms' = rooms \ {s}
    /\ UNCHANGED <<registry, frame_counters, received, last_trigger_time, clock,
                   trig, resp, process_calls, saving>>

\* A second disconnect event for a session whose handle_disconnect has run:
\* lines 507-531 again
DuplicateDisconnectRegistry(s, ip) ==
    /\ conn[s] = "closed"
    /\ LET r == DisconnectRegistry(connected_clients, client_ip_to_session_id, s, ip)
       IN  /\ connected_clients' = r[1]
           /\ client_ip_to_session_id' = r[2]
    /\ conn' = [conn EXCEPT ![s] = "closing_again"]
    /\ UNCHANGED <<ledger, frame_counters, received, last_trigger_time, clock, rooms,
                   trig, resp, process_calls, captures, live, saving>>

\* and lines 534-549 again
DuplicateDisconnectLedger(s) ==
    /\ conn[s] = "closing_again"
    /\ DisconnectLedger(s)
    /\ conn' = [conn EXCEPT ![s] = "closed"]
    /\ UNCHANGED <<registry, frame_counters, received, last_trigger_time, clock, rooms,
                   trig, resp, process_calls, saving>>

\* handle_client_ready, lines 564-571. The message came in while the session was
\* connected; its handler is a thread of its own and can reach line 568 at any
\* time after, the session's handle_disconnect included.
HandleClientReady(s) ==
    /\ conn[s] # "new"
    /\ s \notin connected_clients
    /\ connected_clients' = connected_clients \cup {s}
    /\ UNCHANGED <<client_ip_to_session_id, ledger, frame_counters, received,
                   last_trigger_time, clock, rooms, conn, trig, resp,
                   process_calls, captures, live, saving>>

\* Time passes: datetime.now() returns a later value.
Tick ==
    /\ clock < MaxClock
    /\ clock' = clock + 1
    /\ UNCHANGED <<registry, ledger, frame_counters, received, last_trigger_time, rooms,
                   conn, trig, resp, process_calls, captures, live, saving>>

\* ------------------------------------------------------------ the triggers

\* trigger_capture_endpoint, lines 388-392 and 420-424
EndpointCheck ==
    /\ trig["http"].pc = "idle"
    /\ LET r == CleanupStale(connected_clients, client_ip_to_session_id, rooms)
       IN  /\ connected_clients' = r[1]
           /\ client_ip_to_session_id' = r[2]
           /\ trig' = [trig EXCEPT !["http"] =
                 IF HasClients(r[1])
                 THEN [@ EXCEPT !.pc = "call"]
                 ELSE [@ EXCEPT !.pc = "done", !.result = "400"]]
    /\ UNCHANGED <<ledger, frame_counters, received, last_trigger_time, clock, rooms,
                   conn, resp, process_calls, captures, live, saving>>

\* trigger_capture, lines 656-666 and 685-687
TriggerCheck(t) ==
    /\ IF t = "http" THEN trig[t].pc = "call"
       ELSE trig[t].pc \in {"idle", "done"} /\ Len(captures) < MaxTriggers
    /\ LET r == CleanupStale(connected_clients, client_ip_to_session_id, rooms)
       IN  /\ connected_clients' = r[1]
           /\ client_ip_to_session_id' = r[2]
           /\ IF HasClients(r[1])
              THEN /\ last_trigger_time' = clock
                   /\ trig' = [trig EXCEPT ![t].pc = "open", ![t].capture_id = clock]
              ELSE /\ last_trigger_time' = last_trigger_time
                   /\ trig' = [trig EXCEPT ![t].pc = "done",
                         ![t].result = IF t = "http" THEN "500" ELSE "False"]
    /\ UNCHANGED <<ledger, frame_counters, received, clock, rooms, conn, resp,
                   process_calls, captures, live, saving>>

\* trigger_capture, lines 672-674: under capture_lock
TriggerOpen(t) ==
    /\ trig[t].pc = "open"
    /\ LET k == trig[t].capture_id
           n == Len(captures) + 1
           expected == ExpectedSnapshot(connected_clients)
       IN  /\ pending_captures' = Put(pending_captures, k, expected)
           /\ capture_responses' = Put(capture_responses, k, {})
           /\ captures' = Append(
                 [i \in DOMAIN captures |->
                    IF k \in DOMAIN live /\ live[k] = i
                    THEN [captures[i] EXCEPT !.closed = Append(@, "overwritten")]
                    ELSE captures[i]],
                 [capture_id |-> k, expected |-> expected, closed |-> <<>>,
                  recorded |-> {},
                  sent |-> {}, fanout |-> "running"])
           /\ live' = Put(live, k, n)
           /\ trig' = [trig EXCEPT ![t].pc = "emit", ![t].capture = n]
    /\ UNCHANGED <<registry, capture_image_paths, frame_counters, received,
                   last_trigger_time, clock, rooms, conn, resp, process_calls, saving>>

\* trigger_capture, lines 678-684: one socketio.emit per session of a second copy
TriggerEmit(t) ==
    /\ trig[t].pc = "emit"
    /\ captures' = [captures EXCEPT ![trig[t].capture].sent = @ \cup connected_clients,
                                    ![trig[t].capture].fanout = "done"]
    /\ trig' = [trig EXCEPT ![t] =
          IF t = "http" THEN [@ EXCEPT !.pc = "reply"]
          ELSE [@ EXCEPT !.pc = "done", !.result = "True"]]
    /\ UNCHANGED <<registry, ledger, frame_counters, received, last_trigger_time, clock,
                   rooms, conn, resp, process_calls, live, saving>>

\* trigger_capture, lines 678-680, where socketio.emit raises for one session
\* of the copy: the sessions before it in the list (any of the others, a set has
\* no order) have been sent to, the loop ends and the exception leaves
\* trigger_capture; the endpoint answers 500 (lines 425-432), the keyboard and
\* interval threads log it and go on.
TriggerEmitRaises(t) ==
    /\ trig[t].pc = "emit"
    /\ \E failing \in connected_clients :
         \E before \in SUBSET (connected_clients \ {failing}) :
            captures' = [captures EXCEPT ![trig[t].capture].sent = @ \cup before,
                                         ![trig[t].capture].fanout = "raised"]
    /\ trig' = [trig EXCEPT ![t].pc = "done",
                            ![t].result = IF t = "http" THEN "500" ELSE "raised"]
    /\ UNCHANGED <<registry, ledger, frame_counters, received, last_trigger_time, clock,
                   rooms, conn, resp, process_calls, live, saving>>

\* trigger_capture, lines 672-684 in one step: the capture is opened and the
\* messages are sent with no other thread in between
TriggerOpenAndEmit(t) ==
    /\ trig[t].pc = "open"
    /\ LET k == trig[t].capture_id
           n == Len(captures) + 1
           expected == ExpectedSnapshot(connected_clients)
       IN  /\ pending_captures' = Put(pending_captures, k, expected)
           /\ capture_responses' = Put(capture_responses, k, {})
           /\ captures' = Append(
                 [i \in DOMAIN captures |->
                    IF k \in DOMAIN live /\ live[k] = i
                    THEN [captures[i] EXCEPT !.closed = Append(@, "overwritten")]
                    ELSE captures[i]],
                 [capture_id |-> k, expected |-> expected, closed |-> <<>>,
                  recorded |-> {},
                  sent |-> connected_clients, fanout |-> "done"])
           /\ live' = Put(live, k, n)
           /\ trig' = [trig EXCEPT ![t].pc = IF t = "http" THEN "reply" ELSE "done",
                                   ![t].capture = n,
                                   ![t].result = IF t = "http" THEN "none" ELSE "True"]
    /\ UNCHANGED <<registry, capture_image_paths, frame_counters, received,
                   last_trigger_time, clock, rooms, conn, resp, process_calls, saving>>

\* trigger_capture_endpoint, lines 396-413: the reply names last_trigger_time
EndpointReply ==
    /\ trig["http"].pc = "reply"
    /\ trig' = [trig EXCEPT !["http"].pc = "done", !["http"].result = "200",
                            !["http"].replied = last_trigger_time]
    /\ UNCHANGED <<registry, ledger, frame_counters, received, last_trigger_time, clock,
                   rooms, conn, resp, process_calls, captures, live, saving>>

\* ------------------------------------------------------------- the frames

FramesSaved == Cardinality(received)

\* save_frame_files, lines 203-206
NextFrameNumber(fc, tracking_id) == Get(fc, tracking_id, 0) + 1

\* save_frame_files, line 202, after upload_frame's line 349
TrackingId(m, client_addr) ==
    IF client_addr \in DOMAIN m THEN m[client_addr] ELSE HttpClientId[client_addr]

\* Either frame handler up to the test of handle_capture_response: the files
\* are saved (save_frame_files), then line 267 decides, before capture_lock is
\* taken, whether the handler goes on to the locked section.
SaveFrame(tracking_id, capture_id) ==
    /\ FramesSaved < MaxFrames
    /\ Cardinality(resp) < MaxInFlight
    /\ LET n == NextFrameNumber(frame_counters, tracking_id)
       IN  /\ frame_counters' = Put(frame_counters, tracking_id, n)
           /\ received' = received \cup {[tracking_id |-> tracking_id, frame |-> n,
                                           capture_id |-> capture_id]}
           /\ resp' = IF IsPendingCapture(capture_id, pending_captures)
                      THEN resp \cup {[tracking_id |-> tracking_id,
                                       capture_id |-> capture_id, frame |-> n]}
                      ELSE resp
    /\ UNCHANGED <<registry, ledger, last_trigger_time, clock, rooms, conn,
                   trig, process_calls, captures, live, saving>>

\* save_frame_files, lines 202-205, in handler thread h: the counter is created
\* if absent and its value read, the first half of the += of line 205
SaveLoad(h, tracking_id) ==
    /\ saving[h].pc = "idle"
    /\ frame_counters' = IF tracking_id \in DOMAIN frame_counters THEN frame_counters
                         ELSE Put(frame_counters, tracking_id, 0)
    /\ saving' = [saving EXCEPT ![h] = [pc |-> "store", tracking_id |-> tracking_id,
                                        count |-> Get(frame_counters, tracking_id, 0),
                                        frame_number |-> 0]]
    /\ UNCHANGED <<registry, ledger, received, last_trigger_time, clock, rooms, conn,
                   trig, resp, process_calls, captures, live>>

\* save_frame_files, line 205: the second half of the +=, the store
SaveStore(h) ==
    /\ saving[h].pc = "store"
    /\ frame_counters' = Put(frame_counters, saving[h].tracking_id, saving[h].count + 1)
    /\ saving' = [saving EXCEPT ![h].pc = "number"]
    /\ UNCHANGED <<registry, ledger, received, last_trigger_time, clock, rooms, conn,
                   trig, resp, process_calls, captures, live>>

\* save_frame_files, lines 206-250: frame_number is read back from the counter
\* and the files are written under it; the frame names no capture
SaveNumber(h) ==
    /\ saving[h].pc = "number"
    /\ LET n == frame_counters[saving[h].tracking_id]
       IN  /\ saving' = [saving EXCEPT ![h].pc = "done", ![h].frame_number = n]
           /\ received' = received \cup {[tracking_id |-> saving[h].tracking_id,
                                           frame |-> n, capture_id |-> NoCapture]}
    /\ UNCHANGED <<registry, ledger, frame_counters, last_trigger_time, clock, rooms,
                   conn, trig, resp, process_calls, captures, live>>

\* handle_frame_response, lines 576-636: the tracking id is request.sid
HandleFrameResponse(s, capture_id) ==
    /\ conn[s] # "new"
    /\ SaveFrame(s, capture_id)

\* upload_frame, lines 321-360: the tracking id is the session mapped to the address
UploadFrame(ip, capture_id) ==
    SaveFrame(TrackingId(client_ip_to_session_id, ip), capture_id)

\* handle_capture_response, lines 278-284
ImagePathData(r) == [tracking_id |-> r.tracking_id, frame |-> r.frame]

\* handle_capture_response, lines 270-272
RecordResponded(cr, capture_id, tracking_id) ==
    Put(cr, capture_id, Get(cr, capture_id, {}) \cup {tracking_id})

\* handle_capture_response, lines 275-284
RecordImage(cip, capture_id, image) ==
    Put(cip, capture_id, Append(Get(cip, capture_id, <<>>), image))

\* handle_capture_response, lines 268-316: the section under capture_lock
ResponseLocked(r) ==
    /\ resp' = resp \ {r}
    /\ LET k == r.capture_id
           cr == RecordResponded(capture_responses, k, r.tracking_id)
           cip == RecordImage(capture_image_paths, k, ImagePathData(r))
       IN  IF k \notin DOMAIN pending_captures
           THEN \* line 287 raises KeyError, which the calling handler catches
                /\ capture_responses' = cr
                /\ capture_image_paths' = cip
                /\ UNCHANGED <<pending_captures, process_calls, captures, live, saving>>
           ELSE IF AllResponded(cr[k], pending_captures[k])
           THEN \E outcome \in ProcessOutcome :
                /\ process_calls' = Append(process_calls,
                      [capture_id |-> k, images |-> cip[k],
                       capture |-> live[k], expected |-> pending_captures[k],
                       outcome |-> outcome])
                /\ IF TerminalAfter(outcome)
                   THEN /\ pending_captures' = CleanUp(pending_captures, {k})
                        /\ capture_responses' = CleanUp(cr, {k})
                        /\ capture_image_paths' = CleanUp(cip, {k})
                        /\ captures' = [captures EXCEPT
                                          ![live[k]].closed = Append(@, "completed"),
                                          ![live[k]].recorded = cr[k]]
                        /\ live' = StillLive(pending_captures')
                   ELSE /\ capture_responses' = cr
                        /\ capture_image_paths' = cip
                        /\ UNCHANGED <<pending_captures, captures, live, saving>>
           ELSE /\ capture_responses' = cr
                /\ capture_image_paths' = cip
                /\ UNCHANGED <<pending_captures, process_calls, captures, live, saving>>
    /\ UNCHANGED <<registry, frame_counters, received, last_trigger_time, clock,
                   rooms, conn, trig, saving>>

\* ------------------------------------------------------- the specifications

\* Sessions A and B (one address), the background trigger thread, frames over
\* the WebSocket and over HTTP from that address.
Next ==
    \/ \E s \in {"A", "B"} : HandleConnect(s)
    \/ \E s \in {"A", "B"} : HandleDisconnectRegistry(s, AddrOf[s])
    \/ \E s \in {"A", "B"} : HandleDisconnectLedger(s)
    \/ Tick
    \/ TriggerCheck("bg")
    \/ TriggerOpenAndEmit("bg")
    \/ \E s \in {"A", "B"}, k \in {NoCapture} \cup CaptureId : HandleFrameResponse(s, k)
    \/ \E k \in {NoCapture} \cup CaptureId : UploadFrame("ip1", k)
    \/ \E r \in resp : ResponseLocked(r)

Spec == Init /\ [][Next]_vars

\* Three sessions and the captures of one clock value, answered over the WebSocket.
NextThree ==
    \/ \E s \in Sid : HandleConnect(s)
    \/ \E s \in Sid : HandleDisconnectRegistry(s, AddrOf[s])
    \/ \E s \in Sid : HandleDisconnectLedger(s)
    \/ TriggerCheck("bg")
    \/ TriggerOpenAndEmit("bg")
    \/ \E s \in Sid : HandleFrameResponse(s, clock)
    \/ \E r \in resp : ResponseLocked(r)

SpecThree == Init /\ [][NextThree]_vars

\* Both trigger sources, step by step and within one clock value, over a
\* registry that loses sessions without a disconnect event; no frames.
NextTriggers ==
    \/ \E s \in {"A", "B"} : HandleConnect(s)
    \/ \E s \in {"A", "B"} : HandleDisconnectRegistry(s, AddrOf[s])
    \/ \E s \in {"A", "B"} : HandleDisconnectLedger(s)
    \/ \E s \in {"A", "B"} : TransportDrop(s)
    \/ \E s \in {"A", "B"} : HandleClientReady(s)
    \/ EndpointCheck
    \/ \E t \in Trig : TriggerCheck(t)
    \/ \E t \in Trig : TriggerOpen(t)
    \/ \E t \in Trig : TriggerEmit(t)
    \/ \E t \in Trig : TriggerEmitRaises(t)
    \/ EndpointReply

SpecTriggers == Init /\ [][NextTriggers]_vars

\* One /trigger_capture request next to the background trigger thread, while
\* the clock moves.
NextReply ==
    \/ \E s \in {"A", "B"} : HandleConnect(s)
    \/ HandleDisconnectRegistry("A", AddrOf["A"])
    \/ HandleDisconnectLedger("A")
    \/ Tick
    \/ EndpointCheck
    \/ \E t \in Trig : TriggerCheck(t)
    \/ \E t \in Trig : TriggerOpenAndEmit(t)
    \/ EndpointReply

SpecReply == Init /\ [][NextReply]_vars

\* The registry under every event that writes it: connects, disconnects and
\* repeated disconnects, client_ready, sessions lost by the transport, and the
\* cleanup of the background trigger; no frames.
NextRegistry ==
    \/ \E s \in {"A", "B"} : HandleConnect(s)
    \/ \E s \in {"A", "B"} : HandleDisconnectRegistry(s, AddrOf[s])
    \/ \E s \in {"A", "B"} : HandleDisconnectLedger(s)
    \/ \E s \in {"A", "B"} : DuplicateDisconnectRegistry(s, AddrOf[s])
    \/ \E s \in {"A", "B"} : DuplicateDisconnectLedger(s)
    \/ \E s \in {"A", "B"} : HandleClientReady(s)
    \/ \E s \in {"A", "B"} : TransportDrop(s)
    \/ TriggerCheck("bg")
    \/ TriggerOpenAndEmit("bg")

SpecRegistry == Init /\ [][NextRegistry]_vars

\* Frame handlers inside save_frame_files, statement by statement: frames of
\* sessions A and B over the WebSocket, and over HTTP from their address once
\* it is mapped to a session.
NextFrames ==
    \/ \E s \in {"A", "B"} : HandleConnect(s)
    \/ \E h \in Saver, s \in {"A", "B"} : conn[s] # "new" /\ SaveLoad(h, s)
    \/ \E h \in Saver : /\ "ip1" \in DOMAIN client_ip_to_session_id
                          /\ SaveLoad(h, TrackingId(client_ip_to_session_id, "ip1"))
    \/ \E h \in Saver : SaveStore(h)
    \/ \E h \in Saver : SaveNumber(h)

SpecFrames == Init /\ [][NextFrames]_vars

\* ---------------------------------------------------------------- claims

CallsOfCapture(n) == {i \in DOMAIN process_calls : process_calls[i].capture = n}
CallsOfId(k) == {i \in DOMAIN process_calls : process_calls[i].capture_id = k}
\* How often an entry was taken out of pending_captures by completion or abort
Removals(n) == Cardinality({i \in DOMAIN captures[n].closed :
                              captures[n].closed[i] \in {"completed", "aborted"}})
Aborted(n) == \E i \in DOMAIN captures[n].closed : captures[n].closed[i] = "aborted"
Completed(n) == \E i \in DOMAIN captures[n].closed : captures[n].closed[i] = "completed"
CapturesOfId(k) == {n \in DOMAIN captures : captures[n].capture_id = k}

RemovalsOfId(k) ==
    Cardinality({p \in CapturesOfId(k) \X (1..2) :
                   /\ p[2] \in DOMAIN captures[p[1]].closed
                   /\ captures[p[1]].closed[p[2]] \in {"completed", "aborted"}})

IsResponseLocked(r) == r \in resp /\ resp' = resp \ {r}

Responded(k) == Get(capture_responses, k, {})
TrackingIdsOf(images) == {images[i].tracking_id : i \in DOMAIN images}

\* C2: when a response is recorded for a live capture and with it every session
\* of the capture's expected set has responded, that step completes the
\* capture: one /process call is made, with this capture id, and the id leaves
\* pending_captures, capture_responses and capture_image_paths.
C2_LastResponseCompletes ==
    [][\A r \in resp :
         LET k == r.capture_id IN
         (/\ IsResponseLocked(r)
          /\ k \in DOMAIN pending_captures
          /\ pending_captures[k] \subseteq Responded(k) \cup {r.tracking_id})
         => /\ k \notin DOMAIN pending_captures'
            /\ k \notin DOMAIN capture_responses'
            /\ k \notin DOMAIN capture_image_paths'
            /\ Len(process_calls') = Len(process_calls) + 1
            /\ SubSeq(process_calls', 1, Len(process_calls)) = process_calls
            /\ process_calls'[Len(process_calls')].capture_id = k]_vars

\* C2 witness: a capture opened for A and B was completed by a call that carries
\* a frame of each, and the ledger no longer holds its id.
C2_Witness ==
    \E i \in DOMAIN process_calls :
        /\ captures[process_calls[i].capture].expected = {"A", "B"}
        /\ process_calls[i].expected = {"A", "B"}
        /\ TrackingIdsOf(process_calls[i].images) = {"A", "B"}
        /\ process_calls[i].capture_id \notin DOMAIN pending_captures

\* C3 as stated: the list passed to /process has as many entries as the expected
\* set had when trigger_capture opened the capture, one per expected session.
C3_OnePerOpenedExpected ==
    \A i \in DOMAIN process_calls :
        LET c == process_calls[i] IN
        /\ Len(c.images) = Cardinality(captures[c.capture].expected)
        /\ TrackingIdsOf(c.images) = captures[c.capture].expected

\* C3 amended: the list passed to /process has at least one entry from every
\* session that is in the expected set when the call is made (the set opened by
\* trigger_capture less the sessions handle_disconnect has discarded), so at
\* least as many entries as that set has members.
C3_OnePerStillExpected ==
    \A i \in DOMAIN process_calls :
        LET c == process_calls[i] IN
        /\ c.expected \subseteq captures[c.capture].expected
        /\ c.expected \subseteq TrackingIdsOf(c.images)
        /\ Len(c.images) >= Cardinality(c.expected)

\* C3 witness: a call made for a capture that had lost an expected session, with
\* more entries than sessions still expected.
C3_Witness ==
    \E i \in DOMAIN process_calls :
        LET c == process_calls[i] IN
        /\ c.expected # {}
        /\ c.expected # captures[c.capture].expected
        /\ Len(c.images) > Cardinality(c.expected)

\* The tracking ids recorded for capture n: in capture_responses while it is
\* in the ledger, as they were when it left.
RecordedFor(n) ==
    LET k == captures[n].capture_id
    IN  IF k \in DOMAIN live /\ live[k] = n THEN Responded(k) ELSE captures[n].recorded

IsLive(n) == \E k \in DOMAIN live : live[k] = n

\* C4 as stated: a capture opened for three sessions, two of which have
\* responded while the third has disconnected without responding, in whatever
\* order, is completed: it is out of the ledger and /process was called once,
\* with exactly the two responders' frames.
C4_TwoRespondOneLeaves ==
    \A n \in DOMAIN captures : \A b \in captures[n].expected :
        (/\ Cardinality(captures[n].expected) = 3
         /\ conn[b] = "closed"
         /\ RecordedFor(n) = captures[n].expected \ {b}
         /\ resp = {}
         /\ \A i \in DOMAIN captures[n].closed : captures[n].closed[i] # "overwritten")
        => /\ ~IsLive(n)
           /\ captures[n].closed = <<"completed">>
           /\ Cardinality(CallsOfCapture(n)) = 1
           /\ \A i \in CallsOfCapture(n) :
                /\ TrackingIdsOf(process_calls[i].images) = captures[n].expected \ {b}
                /\ Len(process_calls[i].images) = 2

\* The step is the locked part of handle_disconnect for session s.
IsDisconnectLedger(s) == conn[s] = "closing_ledger" /\ conn'[s] = "closed"

\* The step of handle_disconnect that takes the last expected session of a
\* capture nobody of the expected set has answered aborts it.
AbortsUnanswered ==
    \A s \in Sid : \A k \in DOMAIN pending_captures :
        (/\ IsDisconnectLedger(s)
         /\ pending_captures[k] = {s}
         /\ Responded(k) \cap captures[live[k]].expected = {})
        => /\ k \notin DOMAIN pending_captures'
           /\ k \notin DOMAIN capture_responses'
           /\ k \notin DOMAIN capture_image_paths'
           /\ process_calls' = process_calls
           /\ captures'[live[k]].closed = <<"aborted">>

\* A capture aborted with no response from its expected set
AbortedUnanswered(n) ==
    /\ captures[n].expected # {}
    /\ Aborted(n)
    /\ captures[n].recorded \cap captures[n].expected = {}

C6_RespondedSubsetExpected ==
    \A k \in DOMAIN pending_captures \cap DOMAIN capture_responses :
        capture_responses[k] \subseteq pending_captures[k]

\* C7 as stated: recording a response from a session already in responded for
\* that live capture changes neither responded nor the artifact list.
C7_SecondResponseIdempotent ==
    [][\A r \in resp :
         (/\ IsResponseLocked(r)
          /\ r.capture_id \in DOMAIN pending_captures
          /\ r.tracking_id \in Responded(r.capture_id))
         => /\ capture_responses' = capture_responses
            /\ capture_image_paths' = capture_image_paths]_vars

\* C8 as stated: recording a response for a live capture from a tracking id
\* that is not in the capture's expected set changes nothing in the ledger and
\* completes nothing.
C8_UnexpectedResponderIgnored ==
    [][\A r \in resp :
         (/\ IsResponseLocked(r)
          /\ r.capture_id \in DOMAIN pending_captures
          /\ r.tracking_id \notin captures[live[r.capture_id]].expected)
         => /\ ledger' = ledger
            /\ process_calls' = process_calls]_vars

\* C9: a frame whose capture id is absent or names no pending capture (unknown,
\* or already completed or aborted) is saved, and its handler ends at the test
\* of line 267: the three dicts are as before and no /process call is made.
C9_UnknownCaptureNoOp ==
    [][\A f \in received' \ received :
         ~(f.capture_id # NoCapture /\ f.capture_id \in DOMAIN pending_captures)
         => /\ ledger' = ledger
            /\ process_calls' = process_calls
            /\ resp' = resp
            /\ frame_counters'[f.tracking_id] = f.frame]_vars

\* C9 witness: the capture opened for A alone was aborted, and A's frame naming
\* that id has been saved since, leaving the ledger empty.
C9_Witness ==
    \E n \in DOMAIN captures : \E f \in received :
        /\ captures[n].expected = {"A"}
        /\ Aborted(n)
        /\ CapturesOfId(captures[n].capture_id) = {n}
        /\ f.tracking_id = "A"
        /\ f.capture_id = captures[n].capture_id
        /\ capture_responses = Empty /\ capture_image_paths = Empty
        /\ resp = {}

\* The step is the test of trigger_capture (lines 656-658) in thread t.
IsTriggerCheck(t) ==
    /\ trig'[t] # trig[t]
    /\ IF t = "http" THEN trig[t].pc = "call" ELSE trig[t].pc \in {"idle", "done"}

\* The step is the test of trigger_capture_endpoint (lines 388-392).
IsEndpointCheck == trig["http"].pc = "idle" /\ trig'["http"] # trig["http"]

\* C10: a trigger that finds connected_clients empty after
\* cleanup_stale_connections ends there: trigger_capture returns False (the
\* endpoint replies 500, or 400 when its own test finds nobody), the three
\* dicts are as before, no capture is opened and no capture_frame is sent.
C10_NoClientsNoCapture ==
    [][/\ \A t \in Trig :
            (IsTriggerCheck(t) /\ connected_clients' = {})
            => /\ trig'[t].pc = "done"
               /\ trig'[t].result = (IF t = "http" THEN "500" ELSE "False")
               /\ ledger' = ledger
               /\ captures' = captures
               /\ last_trigger_time' = last_trigger_time
       /\ (IsEndpointCheck /\ connected_clients' = {})
            => /\ trig'["http"].pc = "done"
               /\ trig'["http"].result = "400"
               /\ ledger' = ledger
               /\ captures' = captures]_vars

\* C10 witness: the endpoint saw a session, trigger_capture's own cleanup then
\* found none, and the request ended in an error with nothing opened.
C10_Witness ==
    /\ trig["http"].pc = "done"
    /\ trig["http"].result = "500"
    /\ connected_clients = {}
    /\ captures = <<>>
    /\ pending_captures = Empty

\* Capture n left the ledger in this step, completed or aborted.
BecomesTerminal(n) == Removals(n) = 0 /\ Removals(n)' = 1

\* The session is connected as far as handle_disconnect is concerned: it has
\* connected and the locked part of its handle_disconnect has not run.
StillConnected(s) == conn[s] \in {"up", "closing_ledger"}

\* The sessions capture n was opened for that are still connected and of which
\* no response is recorded.
StillAwaited(n) ==
    {s \in captures[n].expected : StillConnected(s) /\ s \notin RecordedFor(n)}

\* C11: a capture leaves the ledger, completed or aborted, only in a step
\* after which none of the sessions it was opened for is both connected and
\* without a recorded response; while there is such a session it stays in
\* pending_captures.
C11_AwaitedCaptureStays ==
    [][\A n \in DOMAIN captures :
         /\ BecomesTerminal(n) => StillAwaited(n)' = {}
         /\ (IsLive(n) /\ StillAwaited(n)' # {})
              => /\ captures[n].capture_id \in DOMAIN pending_captures'
                 /\ Removals(n)' = 0]_vars

\* C11 witness: the capture opened for A and B has A's response, A has
\* disconnected since, B is connected and has not responded: it is still pending.
C11_Witness ==
    \E n \in DOMAIN captures :
        /\ captures[n].expected = {"A", "B"}
        /\ IsLive(n)
        /\ RecordedFor(n) = {"A"}
        /\ conn["A"] = "closed"
        /\ conn["B"] = "up"
        /\ StillAwaited(n) = {"B"}
        /\ pending_captures[captures[n].capture_id] = {"B"}

\* C12 as stated: when the locked part of handle_disconnect leaves a capture
\* that expected the session with no session that is both connected and
\* without a recorded response, the capture is out of pending_captures at the
\* end of that step.
C12_DisconnectEndsUnanswerable ==
    [][\A s \in Sid : \A n \in DOMAIN captures :
         (/\ IsDisconnectLedger(s)
          /\ IsLive(n)
          /\ s \in pending_captures[captures[n].capture_id]
          /\ StillAwaited(n)' = {})
         => captures[n].capture_id \notin DOMAIN pending_captures']_vars

\* C13 as stated: connected_clients is the set of sessions that have connected
\* and not disconnected since. Sessions the transport lost without a disconnect
\* event are left aside: every session in the set has had no disconnect event,
\* and every session that is up is in the set.
C13_ConnectedByEvents ==
    /\ \A s \in connected_clients : conn[s] \in {"up", "lost"}
    /\ \A s \in Sid : conn[s] = "up" => s \in connected_clients

\* The capture ids whose entry is the same capture before and after the step
SameCapture ==
    {k \in DOMAIN pending_captures \cap DOMAIN pending_captures' : live'[k] = live[k]}

\* C14 as stated: from trigger_capture's assignment until the capture is
\* terminal, pending_captures[id] is the same set after every step.
C14_ExpectedFixed ==
    [][\A k \in SameCapture : pending_captures'[k] = pending_captures[k]]_vars

\* C14 amended: pending_captures[id] never gains a session; it loses one only
\* in the locked part of that session's handle_disconnect, and is at all times
\* a subset of the set trigger_capture stored.
C14_ExpectedOnlyShrinks ==
    /\ [][\A k \in SameCapture :
            \/ pending_captures'[k] = pending_captures[k]
            \/ \E s \in pending_captures[k] :
                 /\ IsDisconnectLedger(s)
                 /\ pending_captures'[k] = pending_captures[k] \ {s}]_vars
    /\ [](\A k \in DOMAIN pending_captures :
            pending_captures[k] \subseteq captures[live[k]].expected)

\* C14 witness: the capture opened for A and B is pending with expected {B},
\* A having disconnected, and B connected.
C14_Witness ==
    \E k \in DOMAIN pending_captures :
        /\ captures[live[k]].expected = {"A", "B"}
        /\ pending_captures[k] = {"B"}
        /\ conn["A"] = "closed"
        /\ conn["B"] = "up"
        /\ capture_responses[k] = {}

\* The step is handle_connect for session s.
IsConnect(s) == conn[s] = "new" /\ conn'[s] = "up"

\* C15: handle_connect changes none of pending_captures, capture_responses and
\* capture_image_paths: the connecting session enters no expected set, and a
\* session whose address it takes over stays in the sets it is in.
C15_ConnectLeavesCaptures ==
    [][\A s \in Sid : IsConnect(s) => ledger' = ledger]_vars

\* C15 witness: the capture opened for A alone is pending with expected {A}
\* while B, connected from A's address since, holds the address mapping.
C15_Witness ==
    \E k \in DOMAIN pending_captures :
        /\ captures[live[k]].expected = {"A"}
        /\ pending_captures[k] = {"A"}
        /\ conn["A"] = "up"
        /\ conn["B"] = "up"
        /\ "B" \in connected_clients
        /\ client_ip_to_session_id["ip1"] = "B"

\* The step is the part of handle_disconnect outside capture_lock, for session s.
IsDisconnectRegistry(s) == conn[s] = "up" /\ conn'[s] = "closing_ledger"

\* C16: handle_disconnect takes the session out of connected_clients and
\* deletes from client_ip_to_session_id nothing but an entry that names this
\* session: the entry of an address a newer session has taken over stays.
C16_DisconnectKeepsNewerMapping ==
    [][\A s \in Sid : IsDisconnectRegistry(s) =>
         /\ connected_clients' = connected_clients \ {s}
         /\ DOMAIN client_ip_to_session_id' \subseteq DOMAIN client_ip_to_session_id
         /\ \A ip \in DOMAIN client_ip_to_session_id :
              IF client_ip_to_session_id[ip] = s
              THEN ip \in DOMAIN client_ip_to_session_id'
                     => client_ip_to_session_id'[ip] = s
              ELSE /\ ip \in DOMAIN client_ip_to_session_id'
                   /\ client_ip_to_session_id'[ip] = client_ip_to_session_id[ip]]_vars

\* C16 witness: A and B were connected together from one address (a capture was
\* opened for both), B being the newer; A has disconnected and the address
\* still maps to B.
C16_Witness ==
    \E n \in DOMAIN captures :
        /\ captures[n].expected = {"A", "B"}
        /\ conn["A"] \in {"closing_ledger", "closed"}
        /\ conn["B"] = "up"
        /\ "A" \notin connected_clients
        /\ "ip1" \in DOMAIN client_ip_to_session_id
        /\ client_ip_to_session_id["ip1"] = "B"

\* The step runs cleanup_stale_connections: the test of trigger_capture or of
\* trigger_capture_endpoint.
IsCleanup == IsEndpointCheck \/ \E t \in Trig : IsTriggerCheck(t)

\* C17: cleanup_stale_connections leaves in connected_clients the sessions that
\* are also in the transport's rooms; client_ip_to_session_id loses the
\* addresses mapped to a session removed by this call and keeps every other
\* entry as it was.
C17_CleanupIntersects ==
    [][IsCleanup =>
         LET removed == connected_clients \ rooms IN
         /\ connected_clients' = connected_clients \cap rooms
         /\ \A ip \in DOMAIN client_ip_to_session_id' :
              client_ip_to_session_id'[ip] \notin removed
         /\ \A ip \in DOMAIN client_ip_to_session_id :
              client_ip_to_session_id[ip] \notin removed
              => /\ ip \in DOMAIN client_ip_to_session_id'
                 /\ client_ip_to_session_id'[ip] = client_ip_to_session_id[ip]
         /\ DOMAIN client_ip_to_session_id' \subseteq DOMAIN client_ip_to_session_id]_vars

\* C17 witness: the transport lost A, a trigger has run its cleanup since: A is
\* out of connected_clients, B is in it and the address still maps to B.
C17_Witness ==
    /\ conn["A"] = "lost"
    /\ conn["B"] = "up"
    /\ connected_clients = {"B"}
    /\ client_ip_to_session_id = Put(Empty, "ip1", "B")
    /\ trig["bg"].pc = "open"

\* C18 as stated: when the loop of trigger_capture has run to its end, the
\* sessions capture_frame was sent to are the sessions of the expected set
\* stored for the capture, whatever connects and disconnects came in between.
C18_SentToExpected ==
    \A n \in DOMAIN captures :
        captures[n].fanout = "done" => captures[n].sent = captures[n].expected

\* C19 as stated: when socketio.emit fails for one session of the copy, the
\* loop of trigger_capture still sends to every other session of the copy, the
\* capture stays in pending_captures, and trigger_capture reports success (it
\* returns True; the endpoint goes on to its 200 reply).
C19_DeliveryFailureSkipsOne ==
    [][\A t \in Trig :
         (/\ trig[t].pc = "emit"
          /\ captures'[trig[t].capture].fanout = "raised")
         => /\ Cardinality(connected_clients \ captures'[trig[t].capture].sent) <= 1
            /\ trig[t].capture_id \in DOMAIN pending_captures'
            /\ IF t = "http" THEN trig'[t].pc = "reply"
                             ELSE trig'[t].result = "True"]_vars

\* The /process calls that did not come back with status 200
FailedCalls == {i \in DOMAIN process_calls : process_calls[i].outcome # "200"}

\* The step of handle_capture_response that makes a /process call that fails
\* takes the capture id out of the three dicts and makes that one call only.
FailedCallCleansUp ==
    \A r \in resp :
        (/\ IsResponseLocked(r)
         /\ Len(process_calls') > Len(process_calls)
         /\ process_calls'[Len(process_calls')].outcome # "200")
        => /\ Len(process_calls') = Len(process_calls) + 1
           /\ r.capture_id \notin DOMAIN pending_captures'
           /\ r.capture_id \notin DOMAIN capture_responses'
           /\ r.capture_id \notin DOMAIN capture_image_paths'

C21_NeverOpenedEmpty ==
    \A n \in DOMAIN captures : captures[n].expected # {}

\* C22 as stated: the locked part of handle_disconnect for a session whose
\* response a pending capture has recorded leaves the capture with that
\* response: the session is still in capture_responses[id] and the list
\* capture_image_paths[id] is as before.
C22_ResponseSurvivesDisconnect ==
    [][\A s \in Sid : \A k \in DOMAIN pending_captures :
         (/\ IsDisconnectLedger(s)
          /\ s \in captures[live[k]].expected
          /\ s \in Responded(k))
         => /\ k \in DOMAIN capture_responses'
            /\ s \in capture_responses'[k]
            /\ k \in DOMAIN capture_image_paths'
            /\ capture_image_paths'[k] = capture_image_paths[k]]_vars

\* C24 as stated: trigger_capture never stores under a capture id that is in
\* pending_captures: no capture is replaced in the ledger by another of the
\* same id.
C24_NeverOverwritten ==
    \A n \in DOMAIN captures : \A i \in DOMAIN captures[n].closed :
        captures[n].closed[i] # "overwritten"

\* C27 as stated: every key of capture_responses and of capture_image_paths
\* is a key of pending_captures.
C27_LedgerKeysAgree ==
    /\ DOMAIN capture_responses \subseteq DOMAIN pending_captures
    /\ DOMAIN capture_image_paths \subseteq DOMAIN pending_captures

\* C25 as stated: the capture id in a 200 reply of /trigger_capture is the id
\* under which that request's trigger_capture call opened its capture.
C25_ReplyNamesOwnCapture ==
    trig["http"].result = "200" => trig["http"].replied = trig["http"].capture_id

\* C23 as stated: no two frames saved under the same tracking id get the same
\* frame number, whether or not their handlers run at the same time.
C23_FrameNumbersDistinct ==
    \A h1 \in Saver : \A h2 \in Saver \ {h1} :
        (/\ saving[h1].pc = "done"
         /\ saving[h2].pc = "done"
         /\ saving[h1].tracking_id = saving[h2].tracking_id)
        => saving[h1].frame_number # saving[h2].frame_number

\* C26 as stated: handle_disconnect run again for a session whose
\* handle_disconnect has run, and that has not connected again, changes neither
\* connected_clients nor client_ip_to_session_id in its first part, and no
\* ledger entry in its locked part, and takes no capture out of the ledger.
C26_DuplicateDisconnectNoOp ==
    [][\A s \in Sid :
         /\ (conn[s] = "closed" /\ conn'[s] = "closing_again") => registry' = registry
         /\ (conn[s] = "closing_again" /\ conn'[s] = "closed")
              => ledger' = ledger /\ captures' = captures]_vars

\* C28: every session that is a value of client_ip_to_session_id is in
\* connected_clients (an address has one value, the dict being a function).
C28_MappedSessionsConnected ==
    \A ip \in DOMAIN client_ip_to_session_id :
        client_ip_to_session_id[ip] \in connected_clients

\* C28 witness: B took over the address from A and was then lost by the
\* transport; a cleanup has removed B and the mapping with it, A is connected.
C28_Witness ==
    /\ conn["A"] = "up"
    /\ conn["B"] = "lost"
    /\ connected_clients = {"A"}
    /\ client_ip_to_session_id = Empty
====
